---- MODULE Spec2Model ----
(***************************************************************************)
(* Session token lifecycle of the SaaS admin platform backend:             *)
(* AuthService.login / refreshToken / logout / generateTokens, run by      *)
(* concurrent request handlers that interleave at their awaited store      *)
(* operations, over the user, tenant and refresh-token tables.             *)
(***************************************************************************)
EXTENDS Integers, Sequences, FiniteSets, TLC

\* ---------------------------------------------------------------- bounds
MaxTicks == 2
MaxNow == 700000000
MaxTokens == 2
MaxEvents == 5
MaxStreak == 6
MaxRequests == 3
MaxLogins == 6
MaxReceived == 2
MaxRenders == 9
MaxUpdates == 3
MaxTimers == 3

\* ------------------------------------------------------ program constants
LockThreshold == 5
LockWindowMs == 900000
RefreshRecordTtlMs == 604800000
RefreshTtlSec == 604800
AccessTtlSec == 900
DenylistTtlSec == 604800
MsPerSecond == 1000

Null == -1

Procs == {1, 2}

UserIds == {"u1"}
TenantIds == {"t1"}
Emails == {"a@x.com", "nobody@x.com"}
UserStatus == {"ACTIVE", "INACTIVE", "SUSPENDED", "PENDING"}
TenantStatus == {"TRIAL", "ACTIVE", "SUSPENDED", "CANCELLED"}
\* The statuses an administrator sets in the runs explored.
UserStatusSet == {"ACTIVE", "INACTIVE"}
TenantStatusSet == {"TRIAL", "SUSPENDED", "CANCELLED"}


VARIABLES
  now,            \* Date.now(), milliseconds
  ticks,          \* number of clock advances made
  users,          \* user table: id -> row
  tenants,        \* tenant table: id -> row
  refreshTokens,  \* refresh-token table: token -> row
  denylist,       \* redis blacklist:<token> keys -> expiry (s)
  auditLog,       \* audit-log table (set of rows)
  pc,             \* per request handler: position in its call
  call,           \* per request handler: operation and arguments
  loc,            \* per request handler: local variables
  res,            \* per request handler: outcome of its last call
  wrongStreak,    \* history: wrong-secret logins of the actor since its last successful login
  events,         \* history: number of calls and environment changes counted against MaxEvents
  client,         \* the browser's API client: localStorage, location, requests in flight
  page,           \* the browser's API client talking to this backend: tokens held, requests
  state,          \* RetailOps store: the state object
  listeners,      \* RetailOps store: the Set of subscribed listeners
  received,       \* history: per listener, calls made by the store and the last argument
  gone,           \* history: listeners unsubscribed since they last subscribed
  liveIntervalId, \* RetailOps app: id of the live-update timer, or null
  timers,         \* RetailOps window: ids of the active interval timers
  timerSeq        \* RetailOps window: last timer id handed out

\* The RetailOps dashboard (a separate page).
retail == <<state, listeners, received, gone, liveIntervalId, timers, timerSeq>>

\* The backend's tables and request handlers.
backend == <<now, ticks, users, tenants, refreshTokens, denylist, auditLog,
             pc, call, loc, res, wrongStreak>>

vars == <<now, ticks, users, tenants, refreshTokens, denylist,
          auditLog, pc, call, loc, res, wrongStreak, client, page, retail>>

\* ------------------------------------------------------------- tokens
NoToken == [kind |-> "none", userId |-> "none", tenantId |-> "none", iat |-> 0, exp |-> 0]
ForgedToken == [kind |-> "forged", userId |-> "u1", tenantId |-> "t1", iat |-> 0, exp |-> 0]
NoTokens == [accessToken |-> NoToken, refreshToken |-> NoToken]

NowSec == now \div MsPerSecond

\* jwt.sign(payload, secret, {expiresIn}): iat in whole seconds, no jti. The email and
\* role of the payload are fixed per user and left out.
JwtSign(user, secretKind, ttlSec) ==
  [kind |-> secretKind, userId |-> user.id, tenantId |-> user.tenantId,
   iat |-> NowSec, exp |-> NowSec + ttlSec]

\* jwt.verify(token, secret): "ok", "JsonWebTokenError" or "TokenExpiredError".
JwtVerify(token, secretKind) ==
  IF token.kind # secretKind THEN "JsonWebTokenError"
  ELSE IF NowSec >= token.exp THEN "TokenExpiredError"
  ELSE "ok"

\* ------------------------------------------------------------- errors
NoErr == [cls |-> "none", statusCode |-> 0, msg |-> "none"]
AppError(cls, code, msg) == [cls |-> cls, statusCode |-> code, msg |-> msg]
UnauthorizedError(msg) == AppError("UnauthorizedError", 401, msg)
ForbiddenError(msg) == AppError("ForbiddenError", 403, msg)
\* prisma unique-constraint violation (P2002) as seen by errorHandler
PrismaKnownError == AppError("PrismaClientKnownRequestError", 400, "Database operation failed")
\* any other error thrown by the store client (store unreachable), as seen by errorHandler
PrismaInitError == AppError("PrismaClientInitializationError", 500, "Internal server error")
\* What a failing store operation may throw.
StoreErrors == {PrismaKnownError, PrismaInitError}

\* req.user as the authenticate middleware attaches it (none for the AuthService calls)
NoUser == [userId |-> "none", tenantId |-> "none"]

Ok(tokens) == [kind |-> "ok", err |-> NoErr, tokens |-> tokens, user |-> NoUser]
Err(e) == [kind |-> "err", err |-> e, tokens |-> NoTokens, user |-> NoUser]
NoRes == [kind |-> "none", err |-> NoErr, tokens |-> NoTokens, user |-> NoUser]
\* next() of the authenticate middleware with req.user = the decoded payload
Accept(token) ==
  [kind |-> "ok", err |-> NoErr, tokens |-> NoTokens,
   user |-> [userId |-> token.userId, tenantId |-> token.tenantId]]

\* ------------------------------------------------------------- tables
NoCall == [op |-> "none", email |-> "none", pwOk |-> FALSE, token |-> NoToken]
NoLoc == [userId |-> "none", failed |-> 0, lockedUntil |-> Null, status |-> "none",
          tenantId |-> "none", tenantStatus |-> "none", tokens |-> NoTokens]

EmailOf(u) == "a@x.com"

\* prisma.user.findFirst({where: {email}})
FindUserByEmail(email) ==
  IF \E u \in DOMAIN users : EmailOf(u) = email
    THEN CHOOSE u \in DOMAIN users : EmailOf(u) = email
    ELSE "none"

\* ------------------------------------------------------------- API client
\* The requests the page may have in flight at once.
Reqs == {1, 2}
\* A request config not yet sent: no _retry flag, nothing sent, no refresh made.
NoReq == [phase |-> "idle", retry |-> FALSE, header |-> 0, sends |-> 0, refreshes |-> 0]
\* Access tokens are numbered as the server hands them out; 0 is no token.
NoClient ==
  [stored |-> 1, minted |-> 1, location |-> "app", started |-> 0,
   req |-> [r \in Reqs |-> NoReq]]

\* A request config of the page not yet sent.
NoPageReq == [phase |-> "idle", retry |-> FALSE, bearer |-> NoToken, cookie |-> NoToken]
\* The page before anyone logged in: nothing in localStorage, no cookie, at /login.
NoPage ==
  [access |-> NoToken, cookie |-> NoToken, location |-> "login", login |-> FALSE,
   started |-> 0, req |-> [r \in Reqs |-> NoPageReq]]

\* ------------------------------------------------------------- RetailOps store
Listeners == {"render", "other"}
\* `let state = null` before initState.
NullState == [live |-> FALSE, lastUpdated |-> Null, demandUplift |-> 0]
NotCalled == [count |-> 0, last |-> NullState]

Init ==
  /\ client = NoClient
  /\ page = NoPage
  /\ state = NullState
  /\ listeners = {}
  /\ received = [l \in Listeners |-> NotCalled]
  /\ gone = {}
  /\ liveIntervalId = Null
  /\ timers = {}
  /\ timerSeq = 0
  /\ now = 0
  /\ ticks = 0
  /\ users = [u \in UserIds |->
       [id |-> u, tenantId |-> "t1", status |-> "ACTIVE",
        failedLoginAttempts |-> 0, lockedUntil |-> Null]]
  /\ tenants = [t \in TenantIds |-> [status |-> "TRIAL"]]
  /\ refreshTokens = << >>
  /\ denylist = << >>
  /\ auditLog = {}
  /\ pc = [p \in Procs |-> "idle"]
  /\ call = [p \in Procs |-> NoCall]
  /\ loc = [p \in Procs |-> NoLoc]
  /\ res = [p \in Procs |-> NoRes]
  /\ wrongStreak = [u \in UserIds |-> 0]
  /\ events = 0


Idle(p) == pc[p] \in {"idle", "done"}

\* Calls in flight that may still insert a refresh-token row.
MayIssue == {q \in Procs : \/ pc[q] \in {"l_issue", "r_user", "r_issue"}
                           \/ pc[q] = "l_compare" /\ call[q].pwOk}
RoomForToken == Cardinality(DOMAIN refreshTokens) + Cardinality(MayIssue) < MaxTokens

\* The call returns or throws: its locals die with it.
Finish(p, r) ==
  /\ pc' = [pc EXCEPT ![p] = "done"]
  /\ res' = [res EXCEPT ![p] = r]
  /\ loc' = [loc EXCEPT ![p] = NoLoc]

\* The call suspends at its next awaited operation.
Goto(p, label, l) ==
  /\ pc' = [pc EXCEPT ![p] = label]
  /\ res' = [res EXCEPT ![p] = NoRes]
  /\ loc' = [loc EXCEPT ![p] = l]

BumpStreak(u) ==
  wrongStreak' = [wrongStreak EXCEPT ![u] = IF @ < MaxStreak THEN @ + 1 ELSE @]

EndStreak(u) == wrongStreak' = [wrongStreak EXCEPT ![u] = 0]

\* ------------------------------------------------------------ environment
Tick(d) ==
  /\ ticks < MaxTicks
  /\ now + d <= MaxNow
  /\ now' = now + d
  /\ ticks' = ticks + 1
  /\ UNCHANGED <<users, tenants, refreshTokens, denylist, auditLog,
                 pc, call, loc, res, wrongStreak>>

\* An administrator changes a tenant's status (outside AuthService).
SetTenantStatus ==
  /\ \E t \in DOMAIN tenants, s \in TenantStatusSet :
       /\ tenants[t].status # s
       /\ tenants' = [tenants EXCEPT ![t].status = s]
  /\ UNCHANGED <<now, ticks, users, refreshTokens, denylist, auditLog,
                 pc, call, loc, res, wrongStreak>>

\* An administrator changes a user's status (outside AuthService).
SetUserStatus ==
  /\ \E u \in DOMAIN users, s \in UserStatusSet :
       /\ users[u].status # s
       /\ users' = [users EXCEPT ![u].status = s]
  /\ UNCHANGED <<now, ticks, tenants, refreshTokens, denylist, auditLog,
                 pc, call, loc, res, wrongStreak>>

\* ------------------------------------------------------------ AuditService.log
\* prisma.auditLog.create inside try/catch: a failed write is swallowed.
AuditWrite(row, ok) == auditLog' = IF ok THEN auditLog \cup {row} ELSE auditLog

\* ------------------------------------------------------------ generateTokens
\* MintTokens signing both assertions with the access key.
MintTokens_OneKey(user) ==
  [accessToken |-> JwtSign(user, "access", AccessTtlSec),
   refreshToken |-> JwtSign(user, "access", RefreshTtlSec)]

\* The pair minted for `user` at the current clock.
MintTokens(user) ==
  [accessToken |-> JwtSign(user, "access", AccessTtlSec),
   refreshToken |-> JwtSign(user, "refresh", RefreshTtlSec)]

\* RefreshRow born revoked.
RefreshRow_Revoked(user) ==
  [userId |-> user.id, expiresAt |-> now + RefreshRecordTtlMs,
   revokedAt |-> now, replacedBy |-> NoToken]

\* The row inserted by prisma.refreshToken.create (revokedAt and replacedBy default to null).
RefreshRow(user) ==
  [userId |-> user.id, expiresAt |-> now + RefreshRecordTtlMs,
   revokedAt |-> Null, replacedBy |-> NoToken]

\* prisma.refreshToken.create: the token column is unique.
CanCreate(token) == token \notin DOMAIN refreshTokens

\* ------------------------------------------------------------ login
\* The user row with its tenant, as findFirst/findUnique({include: {tenant}}) reads it.
ReadUser(u) ==
  [userId |-> u, failed |-> users[u].failedLoginAttempts,
   lockedUntil |-> users[u].lockedUntil,
   status |-> users[u].status, tenantId |-> users[u].tenantId,
   tenantStatus |-> IF users[u].tenantId = "none" THEN "none"
                    ELSE tenants[users[u].tenantId].status,
   tokens |-> NoTokens]

\* The error thrown before bcrypt.compare (user missing, account locked), or NoErr.
LoginLookupError(u) ==
  IF u = "none" THEN UnauthorizedError("Invalid credentials")
  ELSE IF ReadUser(u).lockedUntil # Null /\ ReadUser(u).lockedUntil > now
    THEN UnauthorizedError("Account is locked. Please try again later.")
  ELSE NoErr

\* The error thrown by the status and tenant checks on the row read, or NoErr.
LoginStatusError(l) ==
  IF l.status # "ACTIVE" THEN UnauthorizedError("Account is not active")
  ELSE IF l.tenantId # "none" /\ l.tenantStatus # "none" /\ l.tenantStatus = "SUSPENDED"
    THEN UnauthorizedError("Tenant account is suspended")
  ELSE IF l.tenantId # "none" /\ l.tenantStatus # "none" /\ l.tenantStatus = "CANCELLED"
    THEN UnauthorizedError("Tenant account is cancelled")
  ELSE NoErr

\* LoginCompareError with a message of its own for the wrong secret.
LoginCompareError_OwnMessage(l, pwOk) ==
  IF ~pwOk THEN UnauthorizedError("Invalid password")
  ELSE LoginStatusError(l)

\* The error thrown after bcrypt.compare on the row read, or NoErr.
LoginCompareError(l, pwOk) ==
  IF ~pwOk THEN UnauthorizedError("Invalid credentials")
  ELSE LoginStatusError(l)

\* findFirst by email, then the synchronous not-found and lock checks.
LoginFind(p, email, pwOk) ==
  /\ Idle(p)
  /\ call' = [call EXCEPT ![p] = [op |-> "login", email |-> email, pwOk |-> pwOk, token |-> NoToken]]
  /\ LET u == FindUserByEmail(email) IN
       IF LoginLookupError(u) # NoErr THEN
         /\ Finish(p, Err(LoginLookupError(u)))
         /\ IF u = "none" THEN UNCHANGED wrongStreak
            ELSE IF pwOk THEN UNCHANGED wrongStreak ELSE BumpStreak(u)
       ELSE
         /\ Goto(p, "l_compare", ReadUser(u))
         /\ UNCHANGED wrongStreak
  /\ UNCHANGED <<now, ticks, users, tenants, refreshTokens, denylist, auditLog>>

\* The user row written after a wrong password, from the row read.
FailedUpdate(row, l) ==
  LET failedAttempts == l.failed + 1 IN
  IF failedAttempts >= LockThreshold
    THEN [row EXCEPT !.failedLoginAttempts = failedAttempts, !.lockedUntil = now + LockWindowMs]
    ELSE [row EXCEPT !.failedLoginAttempts = failedAttempts]

\* SuccessUpdate that resets the counter but leaves the lock in place.
SuccessUpdate_KeepLock(row) ==
  [row EXCEPT !.failedLoginAttempts = 0]

\* The user row written on a successful login.
SuccessUpdate(row) ==
  [row EXCEPT !.failedLoginAttempts = 0, !.lockedUntil = Null]

\* LoginCheck counting a refusal by the status checks as a failed attempt.
LoginCheck_CountStatus(p) ==
  /\ pc[p] = "l_compare"
  /\ LET l == loc[p]
         u == l.userId IN
       IF ~call[p].pwOk THEN
         /\ users' = [users EXCEPT ![u] = FailedUpdate(@, l)]
         /\ Goto(p, "l_audit_fail", l)
       ELSE IF LoginCompareError(l, call[p].pwOk) # NoErr THEN
         /\ Finish(p, Err(LoginCompareError(l, call[p].pwOk)))
         /\ users' = [users EXCEPT ![u] = FailedUpdate(@, l)]
       ELSE
         /\ users' = [users EXCEPT ![u] = SuccessUpdate(@)]
         /\ Goto(p, "l_issue", l)
  /\ UNCHANGED <<now, ticks, tenants, refreshTokens, denylist, auditLog, call,
                 wrongStreak>>

\* LoginCheck with the status checks moved before the password check.
LoginCheck_StatusFirst(p) ==
  /\ pc[p] = "l_compare"
  /\ LET l == loc[p]
         u == l.userId IN
       IF LoginStatusError(l) # NoErr THEN
         /\ Finish(p, Err(LoginStatusError(l)))
         /\ UNCHANGED users
       ELSE IF ~call[p].pwOk THEN
         /\ users' = [users EXCEPT ![u] = FailedUpdate(@, l)]
         /\ Goto(p, "l_audit_fail", l)
       ELSE
         /\ users' = [users EXCEPT ![u] = SuccessUpdate(@)]
         /\ Goto(p, "l_issue", l)
  /\ UNCHANGED <<now, ticks, tenants, refreshTokens, denylist, auditLog, call,
                 wrongStreak>>

\* After bcrypt.compare: the wrong-password update, the status checks, or the reset.
LoginCheck(p) ==
  /\ pc[p] = "l_compare"
  /\ LET l == loc[p]
         u == l.userId IN
       IF ~call[p].pwOk THEN
         /\ users' = [users EXCEPT ![u] = FailedUpdate(@, l)]
         /\ Goto(p, "l_audit_fail", l)
       ELSE IF LoginCompareError(l, call[p].pwOk) # NoErr THEN
         /\ Finish(p, Err(LoginCompareError(l, call[p].pwOk)))
         /\ UNCHANGED users
       ELSE
         /\ users' = [users EXCEPT ![u] = SuccessUpdate(@)]
         /\ Goto(p, "l_issue", l)
  /\ UNCHANGED <<now, ticks, tenants, refreshTokens, denylist, auditLog, call,
                 wrongStreak>>

\* auditService.log(LOGIN_FAILED) and the throw that follows it.
LoginAuditFail(p, ok) ==
  /\ pc[p] = "l_audit_fail"
  /\ AuditWrite([action |-> "LOGIN_FAILED", userId |-> loc[p].userId], ok)
  /\ Finish(p, Err(LoginCompareError(loc[p], call[p].pwOk)))
  /\ BumpStreak(loc[p].userId)
  /\ UNCHANGED <<now, ticks, users, tenants, refreshTokens, denylist, call>>

\* generateTokens(user): sign both assertions, insert the refresh row.
IssueStep(p, next) ==
  LET user == [id |-> loc[p].userId, tenantId |-> loc[p].tenantId]
      t == MintTokens(user) IN
    IF CanCreate(t.refreshToken) THEN
      /\ refreshTokens' = refreshTokens @@ (t.refreshToken :> RefreshRow(user))
      /\ Goto(p, next, [loc[p] EXCEPT !.tokens = t])
    ELSE
      /\ Finish(p, Err(PrismaKnownError))
      /\ UNCHANGED refreshTokens

\* generateTokens(user) inside login.
LoginIssue(p) ==
  /\ pc[p] = "l_issue"
  /\ IssueStep(p, "l_audit_ok")
  /\ UNCHANGED <<now, ticks, users, tenants, denylist, auditLog, call, wrongStreak>>

\* LoginAuditOk with an audit service that lets the failure of its write escape.
LoginAuditOk_Abort(p, ok) ==
  /\ pc[p] = "l_audit_ok"
  /\ AuditWrite([action |-> "LOGIN", userId |-> loc[p].userId], ok)
  /\ IF ok THEN Finish(p, Ok(loc[p].tokens)) ELSE Finish(p, Err(PrismaInitError))
  /\ EndStreak(loc[p].userId)
  /\ UNCHANGED <<now, ticks, users, tenants, refreshTokens, denylist, call>>

\* auditService.log(LOGIN) and the return.
LoginAuditOk(p, ok) ==
  /\ pc[p] = "l_audit_ok"
  /\ AuditWrite([action |-> "LOGIN", userId |-> loc[p].userId], ok)
  /\ Finish(p, Ok(loc[p].tokens))
  /\ EndStreak(loc[p].userId)
  /\ UNCHANGED <<now, ticks, users, tenants, refreshTokens, denylist, call>>

\* ------------------------------------------------------------ refreshToken
\* The error thrown by jwt.verify and the stored-token checks, or NoErr.
\* TokenExpiredError is a JsonWebTokenError: the catch rewrites both.
RefreshLookupError(token) ==
  IF JwtVerify(token, "refresh") # "ok" THEN UnauthorizedError("Invalid refresh token")
  ELSE IF token \notin DOMAIN refreshTokens \/ refreshTokens[token].revokedAt # Null
    THEN UnauthorizedError("Invalid refresh token")
  ELSE IF refreshTokens[token].expiresAt < now THEN UnauthorizedError("Refresh token expired")
  ELSE NoErr

\* jwt.verify, findUnique by token, then the synchronous revoked and expiry checks.
RefreshFind(p, token) ==
  /\ Idle(p)
  /\ call' = [call EXCEPT ![p] = [op |-> "refresh", email |-> "none", pwOk |-> FALSE, token |-> token]]
  /\ IF RefreshLookupError(token) # NoErr
       THEN Finish(p, Err(RefreshLookupError(token)))
       ELSE Goto(p, "r_user", NoLoc)
  /\ UNCHANGED <<now, ticks, users, tenants, refreshTokens, denylist,
                 auditLog, wrongStreak>>

\* The error thrown by the user check of refreshToken, or NoErr.
RefreshUserError(u) ==
  IF u \notin DOMAIN users \/ users[u].status # "ACTIVE"
    THEN UnauthorizedError("User not found or inactive")
    ELSE NoErr

\* findUnique of the user named in the payload, and the status check.
RefreshUser(p) ==
  /\ pc[p] = "r_user"
  /\ LET u == call[p].token.userId IN
       IF RefreshUserError(u) # NoErr
         THEN Finish(p, Err(RefreshUserError(u)))
         ELSE Goto(p, "r_issue", ReadUser(u))
  /\ UNCHANGED <<now, ticks, users, tenants, refreshTokens, denylist,
                 auditLog, call, wrongStreak>>

\* generateTokens(user) inside refreshToken.
RefreshIssue(p) ==
  /\ pc[p] = "r_issue"
  /\ IssueStep(p, "r_update")
  /\ UNCHANGED <<now, ticks, users, tenants, denylist, auditLog, call, wrongStreak>>

\* RotateUpdate that revokes the row without recording its successor.
RotateUpdate_NoSuccessor(row, newToken) ==
  [row EXCEPT !.revokedAt = now]

\* The row written by prisma.refreshToken.update({where: {token}}).
RotateUpdate(row, newToken) ==
  [row EXCEPT !.revokedAt = now, !.replacedBy = newToken]

\* Revoke the old row, point it at the new one, return the new pair.
RefreshUpdate(p) ==
  /\ pc[p] = "r_update"
  /\ refreshTokens' = [refreshTokens EXCEPT ![call[p].token] =
                         RotateUpdate(@, loc[p].tokens.refreshToken)]
  /\ Finish(p, Ok(loc[p].tokens))
  /\ UNCHANGED <<now, ticks, users, tenants, denylist, auditLog, call, wrongStreak>>

\* ------------------------------------------------------------ logout
\* The row written by prisma.refreshToken.updateMany({where: {token}}).
LogoutRow(row) == [row EXCEPT !.revokedAt = now]

\* updateMany: revoke every row holding the token (none is not an error).
LogoutUpdate(p, token) ==
  /\ Idle(p)
  /\ call' = [call EXCEPT ![p] = [op |-> "logout", email |-> "none", pwOk |-> FALSE, token |-> token]]
  /\ refreshTokens' = [t \in DOMAIN refreshTokens |->
                         IF t = token THEN LogoutRow(refreshTokens[t]) ELSE refreshTokens[t]]
  /\ Goto(p, "o_redis", NoLoc)
  /\ UNCHANGED <<now, ticks, users, tenants, denylist, auditLog, wrongStreak>>

\* redis.setEx(`blacklist:${token}`, 7 days) when a redis client is available.
LogoutRedis(p, redis) ==
  /\ pc[p] = "o_redis"
  /\ denylist' = IF redis
                   THEN [t \in DOMAIN denylist \cup {call[p].token} |->
                           IF t = call[p].token THEN NowSec + DenylistTtlSec ELSE denylist[t]]
                   ELSE denylist
  /\ Finish(p, Ok(NoTokens))
  /\ UNCHANGED <<now, ticks, users, tenants, refreshTokens, auditLog, call,
                 wrongStreak>>

\* ------------------------------------------------------------ authenticate middleware
\* AuthenticateError trusting the access assertion alone: the user row is not read.
AuthenticateError_TokenOnly(token) ==
  IF token = NoToken THEN UnauthorizedError("No token provided")
  ELSE IF JwtVerify(token, "access") # "ok" THEN UnauthorizedError("Invalid token")
  ELSE NoErr

\* The error the middleware hands to next(), or NoErr. NoToken stands for a request
\* without a Bearer header. TokenExpiredError is a JsonWebTokenError: the first
\* branch of the catch takes both.
AuthenticateError(token) ==
  IF token = NoToken THEN UnauthorizedError("No token provided")
  ELSE IF JwtVerify(token, "access") # "ok" THEN UnauthorizedError("Invalid token")
  ELSE IF token.userId \notin DOMAIN users THEN UnauthorizedError("User not found")
  ELSE IF ReadUser(token.userId).status # "ACTIVE"
    THEN UnauthorizedError("User account is not active")
  ELSE IF ReadUser(token.userId).tenantId # "none"
          /\ ReadUser(token.userId).tenantStatus = "SUSPENDED"
    THEN ForbiddenError("Tenant account is suspended")
  ELSE IF ReadUser(token.userId).tenantId # "none"
          /\ ReadUser(token.userId).tenantStatus = "CANCELLED"
    THEN ForbiddenError("Tenant account is cancelled")
  ELSE NoErr

\* authenticate(req, res, next) with `token` in the Authorization header.
Authenticate(p, token) ==
  /\ Idle(p)
  /\ call' = [call EXCEPT ![p] = [op |-> "authenticate", email |-> "none", pwOk |-> FALSE,
                                  token |-> token]]
  /\ IF AuthenticateError(token) # NoErr
       THEN Finish(p, Err(AuthenticateError(token)))
       ELSE Finish(p, Accept(token))
  /\ UNCHANGED <<now, ticks, users, tenants, refreshTokens, denylist, auditLog, wrongStreak>>

\* ------------------------------------------------------------ store failures
\* The first store operation of a call (findFirst of login, findUnique of refreshToken,
\* updateMany of logout) throws: nothing was written, the error reaches the caller.
EntryFail(p, c, e) ==
  /\ Idle(p)
  /\ call' = [call EXCEPT ![p] = c]
  /\ Finish(p, Err(e))
  /\ UNCHANGED <<now, ticks, users, tenants, refreshTokens, denylist, auditLog, wrongStreak>>

\* The call is suspended before a store operation (user.update, user.findUnique,
\* refreshToken.create, refreshToken.update).
AtStoreOp(p) ==
  \/ pc[p] \in {"l_issue", "r_user", "r_issue", "r_update"}
  \/ pc[p] = "l_compare" /\ LoginCompareError(loc[p], call[p].pwOk) \in
                               {NoErr, UnauthorizedError("Invalid credentials")}

\* That store operation throws: it writes nothing, what the call wrote before stays,
\* and neither login nor the catch of refreshToken handles the error.
StoreFail(p, e) ==
  /\ AtStoreOp(p)
  /\ Finish(p, Err(e))
  /\ UNCHANGED <<now, ticks, users, tenants, refreshTokens, denylist, auditLog, call,
                 wrongStreak>>

\* ------------------------------------------------------------ API client (frontend)
\* A step of the browser: the backend's tables are not touched by it.
ClientStep(c) ==
  /\ client' = c
  /\ UNCHANGED <<now, ticks, users, tenants, refreshTokens, denylist, auditLog,
                 pc, call, loc, res, wrongStreak, events, page, retail>>

\* api.<method>(...): the request interceptor attaches the stored token.
ClientSend(r) ==
  /\ client.req[r].phase \in {"idle", "resolved", "rejected"}
  /\ client.location = "app"
  /\ client.started < MaxRequests
  /\ ClientStep([client EXCEPT
        !.started = @ + 1,
        !.req[r] = [phase |-> "sent", retry |-> FALSE, header |-> client.stored,
                    sends |-> 1, refreshes |-> 0]])

\* The response interceptor: a 2xx resolves; a 401 on a config without _retry sets the
\* flag and posts /auth/refresh; anything else (0 is no response at all) rejects.
ClientResponse(r, status) ==
  /\ client.req[r].phase = "sent"
  /\ ClientStep(
       IF status = 200 THEN [client EXCEPT !.req[r].phase = "resolved"]
       ELSE IF status = 401 /\ ~client.req[r].retry
         THEN [client EXCEPT !.req[r].phase = "refreshing", !.req[r].retry = TRUE,
                             !.req[r].refreshes = @ + 1]
       ELSE [client EXCEPT !.req[r].phase = "rejected"])

\* ClientRefreshDone that leaves the stored token in place when the refresh fails.
ClientRefreshDone_KeepToken(r, ok) ==
  /\ client.req[r].phase = "refreshing"
  /\ ClientStep(
       IF ok
         THEN [client EXCEPT !.minted = @ + 1, !.stored = client.minted + 1,
                             !.req[r].phase = "sent", !.req[r].header = client.minted + 1,
                             !.req[r].sends = @ + 1]
         ELSE [client EXCEPT !.location = "login", !.req[r].phase = "rejected"])

\* The awaited axios.post of /auth/refresh settles: on success the new token is stored
\* and the original request is sent again with it; on failure the stored token is
\* removed, the page goes to /login and the request rejects.
ClientRefreshDone(r, ok) ==
  /\ client.req[r].phase = "refreshing"
  /\ ClientStep(
       IF ok
         THEN [client EXCEPT !.minted = @ + 1, !.stored = client.minted + 1,
                             !.req[r].phase = "sent", !.req[r].header = client.minted + 1,
                             !.req[r].sends = @ + 1]
         ELSE [client EXCEPT !.stored = 0, !.location = "login",
                             !.req[r].phase = "rejected"])

\* authApi.login from the login page stores the token it gets.
ClientLogin ==
  /\ client.location = "login"
  /\ ClientStep([client EXCEPT !.minted = @ + 1, !.stored = client.minted + 1,
                               !.location = "app"])

\* ------------------------------------------------------------ API client against this backend
\* Request r of the page is served by request handler r; the login form by handler 1.
\* A step of the page that leaves the backend alone.
PageOnly(pg) ==
  /\ page' = pg
  /\ UNCHANGED <<backend, events, client, retail>>

\* A step of the page that hands a call to the backend.
PageCall(pg, A) ==
  /\ page' = pg
  /\ A
  /\ UNCHANGED <<events, client, retail>>

\* authApi.login: api.post('/auth/login') with the right credentials reaches
\* AuthController.login.
PageLoginSend ==
  /\ page.location = "login" /\ ~page.login
  /\ events < MaxEvents /\ events' = events + 1
  /\ page' = [page EXCEPT !.login = TRUE]
  /\ LoginFind(1, "a@x.com", TRUE)
  /\ UNCHANGED <<client, retail>>

\* The login response: the controller set the refresh cookie and returned the access
\* token, which authApi.login stores; the app is entered with no request in flight.
PageLoginDone ==
  /\ page.login /\ pc[1] = "done" /\ call[1].op = "login"
  /\ PageOnly(IF res[1].kind = "ok"
                THEN [page EXCEPT !.login = FALSE, !.location = "app",
                                  !.access = res[1].tokens.accessToken,
                                  !.cookie = res[1].tokens.refreshToken,
                                  !.req = [r \in Reqs |-> NoPageReq]]
                ELSE [page EXCEPT !.login = FALSE])

\* The HTTP status of handler p's answer (errorHandler: the error's statusCode).
StatusOf(p) == IF res[p].kind = "ok" THEN 200 ELSE res[p].err.statusCode

\* api.<method>(...) on a protected route: the request interceptor attaches the token
\* in localStorage and the authenticate middleware answers.
PageSend(r) ==
  /\ page.location = "app"
  /\ page.req[r].phase \in {"idle", "resolved", "rejected"}
  /\ page.started < MaxRequests
  /\ PageCall([page EXCEPT !.started = @ + 1,
                           !.req[r] = [phase |-> "sent", retry |-> FALSE,
                                       bearer |-> page.access, cookie |-> NoToken]],
              Authenticate(r, page.access))

\* The response interceptor: a 2xx resolves; a 401 on a config without _retry sets the
\* flag and posts /auth/refresh with the cookie the browser holds now, which reaches
\* AuthController.refresh; anything else rejects.
PageResponse(r) ==
  /\ page.location = "app"
  /\ page.req[r].phase = "sent"
  /\ IF StatusOf(r) = 200 THEN PageOnly([page EXCEPT !.req[r].phase = "resolved"])
     ELSE IF StatusOf(r) = 401 /\ ~page.req[r].retry
       THEN PageCall([page EXCEPT !.req[r].phase = "refreshing", !.req[r].retry = TRUE,
                                  !.req[r].cookie = page.cookie],
                     RefreshFind(r, page.cookie))
     ELSE PageOnly([page EXCEPT !.req[r].phase = "rejected"])

\* The awaited axios.post of /auth/refresh settles. On success the browser takes the
\* new cookie, the new access token is stored and the original request is sent again
\* with it; on failure the stored token is removed, the page goes to /login and the
\* request rejects.
PageRefreshDone(r) ==
  /\ page.location = "app"
  /\ page.req[r].phase = "refreshing"
  /\ pc[r] = "done"
  /\ IF res[r].kind = "ok"
       THEN PageCall([page EXCEPT !.access = res[r].tokens.accessToken,
                                  !.cookie = res[r].tokens.refreshToken,
                                  !.req[r].phase = "sent",
                                  !.req[r].bearer = res[r].tokens.accessToken],
                     Authenticate(r, res[r].tokens.accessToken))
       ELSE PageOnly([page EXCEPT !.access = NoToken, !.location = "login",
                                  !.req[r].phase = "rejected"])

\* ------------------------------------------------------------ RetailOps state store
\* Slider positions tried (percent); demandUplift is kept in percent.
Uplifts == {0, 10}
\* State objects handed to initState and setState by a caller of the store.
StoreStates == [live : BOOLEAN, lastUpdated : {0}, demandUplift : Uplifts]

\* A step of the RetailOps page: the admin platform is not touched by it.
RetailStep == UNCHANGED <<backend, events, client, page>>

\* The history may record one more call for every subscribed listener.
Room(n) == \A l \in listeners : received[l].count < n

\* listeners.forEach((listener) => listener(state)) over the set ls with state s.
Notified(ls, s) ==
  [l \in Listeners |->
     IF l \in ls THEN [count |-> received[l].count + 1, last |-> s] ELSE received[l]]

\* SetStateTo that also calls the listeners that have unsubscribed.
SetStateTo_KeepGone(nextState) ==
  /\ state' = nextState
  /\ received' = Notified(listeners \cup gone, state')

\* setState(nextState): assign, then notify.
SetStateTo(nextState) ==
  /\ state' = nextState
  /\ received' = Notified(listeners, state')

\* The state simulateTick returns: live and scenario kept, telemetry and lastUpdated new.
SimulateTick(s) == [s EXCEPT !.lastUpdated = @ + 1]

\* initState(initialState)
StoreInit(s) ==
  /\ state' = s
  /\ UNCHANGED <<listeners, received, gone, liveIntervalId, timers, timerSeq>>
  /\ RetailStep

\* setState(nextState)
StoreSet(nextState) ==
  /\ Room(MaxReceived)
  /\ SetStateTo(nextState)
  /\ UNCHANGED <<listeners, gone, liveIntervalId, timers, timerSeq>>
  /\ RetailStep

\* updateState(simulateTick)
StoreUpdate ==
  /\ Room(MaxReceived)
  /\ state # NullState /\ state.lastUpdated < MaxUpdates
  /\ SetStateTo(SimulateTick(state))
  /\ UNCHANGED <<listeners, gone, liveIntervalId, timers, timerSeq>>
  /\ RetailStep

\* subscribe(listener): Set.add.
StoreSubscribe(l) ==
  /\ listeners' = listeners \cup {l}
  /\ gone' = gone \ {l}
  /\ UNCHANGED <<state, received, liveIntervalId, timers, timerSeq>>
  /\ RetailStep

\* The function subscribe(listener) returned is called: Set.delete.
StoreUnsubscribe(l) ==
  /\ l \in listeners \cup gone
  /\ listeners' = listeners \ {l}
  /\ gone' = gone \cup {l}
  /\ UNCHANGED <<state, received, liveIntervalId, timers, timerSeq>>
  /\ RetailStep

\* ------------------------------------------------------------ RetailOps dashboard
\* createInitialState(): live, fresh telemetry, no uplift.
CreateInitialState == [live |-> TRUE, lastUpdated |-> 0, demandUplift |-> 0]

\* startLiveUpdates(): one more interval timer unless an id is held.
StartLiveUpdates ==
  IF liveIntervalId # Null
    THEN UNCHANGED <<liveIntervalId, timers, timerSeq>>
    ELSE /\ timerSeq' = timerSeq + 1
         /\ timers' = timers \cup {timerSeq'}
         /\ liveIntervalId' = timerSeq'

\* StopLiveUpdates that forgets the id without clearing the timer.
StopLiveUpdates_KeepTimer ==
  IF liveIntervalId # Null
    THEN /\ liveIntervalId' = Null
         /\ UNCHANGED <<timers, timerSeq>>
    ELSE UNCHANGED <<liveIntervalId, timers, timerSeq>>

\* stopLiveUpdates(): clearInterval of the id held.
StopLiveUpdates ==
  IF liveIntervalId # Null
    THEN /\ timers' = timers \ {liveIntervalId}
         /\ liveIntervalId' = Null
         /\ UNCHANGED timerSeq
    ELSE UNCHANGED <<liveIntervalId, timers, timerSeq>>

\* setLiveMode(enabled) on the state s with the listeners ls.
SetLiveMode(s, ls, enabled) ==
  /\ state' = [s EXCEPT !.live = enabled]
  /\ received' = Notified(ls, state')
  /\ IF enabled THEN StartLiveUpdates ELSE StopLiveUpdates

\* init(): initState, subscribe(render), registerEventHandlers, setLiveMode(true).
AppInit ==
  /\ state = NullState
  /\ listeners' = listeners \cup {"render"}
  /\ SetLiveMode(CreateInitialState, listeners', TRUE)
  /\ UNCHANGED gone
  /\ RetailStep

\* Click on the live toggle: setLiveMode(!getState().live).
ClickLiveToggle ==
  /\ state # NullState
  /\ Room(MaxRenders)
  /\ ~state.live => timerSeq < MaxTimers
  /\ SetLiveMode(state, listeners, ~state.live)
  /\ UNCHANGED <<listeners, gone>>
  /\ RetailStep

\* Input on the demand slider: updateState with the new scenario.
SliderInput(v) ==
  /\ state # NullState
  /\ Room(MaxRenders)
  /\ SetStateTo([state EXCEPT !.demandUplift = v])
  /\ UNCHANGED <<listeners, gone, liveIntervalId, timers, timerSeq>>
  /\ RetailStep

\* The window runs the callback of an active interval timer: updateState(simulateTick).
TimerFire(id) ==
  /\ id \in timers
  /\ Room(MaxRenders)
  /\ state.lastUpdated < MaxUpdates
  /\ SetStateTo(SimulateTick(state))
  /\ UNCHANGED <<listeners, gone, liveIntervalId, timers, timerSeq>>
  /\ RetailStep

\* ------------------------------------------------------------ specifications
\* Refresh values a client may present: any value a call has returned, or one with a
\* bad signature. A value still held by the call that minted it is not yet known.
Presentable ==
  (DOMAIN refreshTokens \ {loc[q].tokens.refreshToken : q \in Procs}) \cup {ForgedToken}

\* A step that counts against the budget of calls and environment changes explored.
Counted(A) ==
  events < MaxEvents /\ A /\ events' = events + 1 /\ UNCHANGED <<client, page, retail>>
Uncounted(A) == A /\ UNCHANGED <<events, client, page, retail>>

\* Token lifecycle: request handlers interleave at their awaited store operations;
\* every login presents the right password.
Next ==
  \/ \E p \in Procs : Counted(LoginFind(p, "a@x.com", TRUE))
  \/ \E p \in Procs : Uncounted(LoginCheck(p))
  \/ \E p \in Procs : Uncounted(LoginIssue(p))
  \/ \E p \in Procs : Uncounted(LoginAuditOk(p, TRUE))
  \/ \E p \in Procs, token \in Presentable : Counted(RefreshFind(p, token))
  \/ \E p \in Procs : Uncounted(RefreshUser(p))
  \/ \E p \in Procs : Uncounted(RefreshIssue(p))
  \/ \E p \in Procs : Uncounted(RefreshUpdate(p))
  \/ \E p \in Procs, token \in Presentable : Counted(LogoutUpdate(p, token))
  \/ \E p \in Procs, redis \in BOOLEAN : Uncounted(LogoutRedis(p, redis))
  \/ \E d \in {MsPerSecond, RefreshRecordTtlMs} : Counted(Tick(d))
  \/ Counted(SetTenantStatus)
  \/ Counted(SetUserStatus)

Spec == Init /\ [][Next]_vars

\* Authentication: one login at a time (calls never overlap), any identifier and secret.
NextSeq ==
  \/ \E email \in Emails, pwOk \in BOOLEAN :
       (pwOk => RoomForToken) /\ Uncounted(LoginFind(1, email, pwOk))
  \/ Uncounted(LoginCheck(1))
  \/ Uncounted(LoginAuditFail(1, TRUE))
  \/ Uncounted(LoginIssue(1))
  \/ Uncounted(LoginAuditOk(1, TRUE))
  \/ \E d \in {MsPerSecond, LockWindowMs} : Uncounted(Tick(d))
  \/ Uncounted(SetTenantStatus)
  \/ Uncounted(SetUserStatus)

SpecSeq == Init /\ [][NextSeq]_vars

\* The calls a client makes with the known identifier and a presentable refresh value.
ClientCalls ==
  {[op |-> "login", email |-> "a@x.com", pwOk |-> b, token |-> NoToken] : b \in BOOLEAN}
    \cup {[op |-> o, email |-> "none", pwOk |-> FALSE, token |-> t] :
             o \in {"refresh", "logout"}, t \in Presentable}

\* Failures: one call at a time; every store operation may throw and every audit write
\* may fail.
NextFault ==
  \/ \E pwOk \in BOOLEAN : Counted(LoginFind(1, "a@x.com", pwOk))
  \/ Uncounted(LoginCheck(1))
  \/ \E ok \in BOOLEAN : Uncounted(LoginAuditFail(1, ok))
  \/ Uncounted(LoginIssue(1))
  \/ \E ok \in BOOLEAN : Uncounted(LoginAuditOk(1, ok))
  \/ \E token \in Presentable : Counted(RefreshFind(1, token))
  \/ Uncounted(RefreshUser(1))
  \/ Uncounted(RefreshIssue(1))
  \/ Uncounted(RefreshUpdate(1))
  \/ \E token \in Presentable : Counted(LogoutUpdate(1, token))
  \/ \E redis \in BOOLEAN : Uncounted(LogoutRedis(1, redis))
  \/ \E c \in ClientCalls, e \in StoreErrors : Counted(EntryFail(1, c, e))
  \/ \E e \in StoreErrors : Uncounted(StoreFail(1, e))
  \/ Counted(Tick(MsPerSecond))

SpecFault == Init /\ [][NextFault]_vars

\* Values a client may put in its Authorization header: the two values of the pair
\* handler 1 last returned, a forged value, or none.
BearerTokens ==
  {res[1].tokens.accessToken, res[1].tokens.refreshToken, ForgedToken, NoToken}

\* Use of the credentials: handler 1 issues pairs (login with the right password,
\* refreshToken), handler 2 runs the authenticate middleware on what a client sends.
NextUse ==
  \/ Counted(LoginFind(1, "a@x.com", TRUE))
  \/ Uncounted(LoginCheck(1))
  \/ Uncounted(LoginIssue(1))
  \/ Uncounted(LoginAuditOk(1, TRUE))
  \/ \E token \in Presentable : Counted(RefreshFind(1, token))
  \/ Uncounted(RefreshUser(1))
  \/ Uncounted(RefreshIssue(1))
  \/ Uncounted(RefreshUpdate(1))
  \/ \E token \in BearerTokens : Counted(Authenticate(2, token))
  \/ \E d \in {MsPerSecond, AccessTtlSec * MsPerSecond} : Counted(Tick(d))
  \/ Counted(SetTenantStatus)
  \/ Counted(SetUserStatus)

SpecUse == Init /\ [][NextUse]_vars

\* A login call counted against MaxLogins.
CountedLogin(A) ==
  events < MaxLogins /\ A /\ events' = events + 1 /\ UNCHANGED <<client, page, retail>>

\* Interleaved logins: two handlers serve logins of the same actor, with the right or
\* a wrong password, and interleave at their awaited store operations.
NextRace ==
  \/ \E p \in Procs, pwOk \in BOOLEAN : CountedLogin(LoginFind(p, "a@x.com", pwOk))
  \/ \E p \in Procs : Uncounted(LoginCheck(p))
  \/ \E p \in Procs : Uncounted(LoginAuditFail(p, TRUE))
  \/ \E p \in Procs : Uncounted(LoginIssue(p))
  \/ \E p \in Procs : Uncounted(LoginAuditOk(p, TRUE))

SpecRace == Init /\ [][NextRace]_vars

\* The page and the backend together: the login form, two requests in flight, the
\* refresh calls of their 401 handlers interleaving in the backend.
NextPage ==
  \/ PageLoginSend
  \/ Uncounted(LoginCheck(1))
  \/ Uncounted(LoginIssue(1))
  \/ Uncounted(LoginAuditOk(1, TRUE))
  \/ PageLoginDone
  \/ \E r \in Reqs : PageSend(r)
  \/ \E r \in Reqs : PageResponse(r)
  \/ \E p \in Procs : Uncounted(RefreshUser(p))
  \/ \E p \in Procs : Uncounted(RefreshIssue(p))
  \/ \E p \in Procs : Uncounted(RefreshUpdate(p))
  \/ \E r \in Reqs : PageRefreshDone(r)
  \/ \E d \in {MsPerSecond, AccessTtlSec * MsPerSecond} : Uncounted(Tick(d))

SpecPage == Init /\ [][NextPage]_vars

\* The RetailOps store driven through its exports by any caller.
NextStore ==
  \/ \E s \in StoreStates : StoreInit(s)
  \/ \E s \in StoreStates : StoreSet(s)
  \/ StoreUpdate
  \/ \E l \in Listeners : StoreSubscribe(l)
  \/ \E l \in Listeners : StoreUnsubscribe(l)

SpecStore == Init /\ [][NextStore]_vars

\* The RetailOps dashboard: init, then clicks, slider inputs and timer callbacks.
NextDash ==
  \/ AppInit
  \/ ClickLiveToggle
  \/ \E v \in Uplifts : SliderInput(v)
  \/ \E id \in timers : TimerFire(id)

SpecDash == Init /\ [][NextDash]_vars

\* The HTTP statuses the backend answers with; 0 stands for no response.
Statuses == {0, 200, 400, 401, 403, 500}

\* The API client against a backend that may answer anything.
NextClient ==
  \/ \E r \in Reqs : ClientSend(r)
  \/ \E r \in Reqs, status \in Statuses : ClientResponse(r, status)
  \/ \E r \in Reqs, ok \in BOOLEAN : ClientRefreshDone(r, ok)
  \/ ClientLogin

\* Every response and every refresh eventually arrives.
ClientFairness ==
  \A r \in Reqs :
    /\ WF_vars(\E status \in Statuses : ClientResponse(r, status))
    /\ WF_vars(\E ok \in BOOLEAN : ClientRefreshDone(r, ok))

SpecClient == Init /\ [][NextClient]_vars /\ ClientFairness

TypeOK ==
  /\ now \in 0..MaxNow
  /\ ticks \in 0..MaxTicks
  /\ \A u \in DOMAIN users : users[u].failedLoginAttempts >= 0
  /\ \A p \in Procs : pc[p] \in {"idle", "done", "l_compare", "l_audit_fail", "l_issue",
                                 "l_audit_ok", "r_user", "r_issue", "r_update", "o_redis"}

\* ------------------------------------------------------------ properties
BadTenantStatus == {"SUSPENDED", "CANCELLED"}
InvalidRefresh == Err(UnauthorizedError("Invalid refresh token"))
\* C1, first half: a Rotate that found its record present, unrevoked and unexpired and
\* its actor Active returns a new pair.
C1_FreshSucceeds ==
  \A p \in Procs :
    (pc[p] \in {"r_issue", "r_update"} /\ pc'[p] = "done") => res'[p].kind = "ok"

\* C1, second half: once a Rotate of value v has returned a pair (v has a successor),
\* every Rotate that presents v fails with 'Invalid refresh token'.
C1_ReplayFails ==
  \A p \in Procs : \A v \in Presentable :
    (RefreshFind(p, v) /\ v \in DOMAIN refreshTokens /\ refreshTokens[v].replacedBy # NoToken)
      => (pc'[p] = "done" /\ res'[p] = InvalidRefresh)

\* C1: Rotate on a never-rotated, unrevoked, unexpired record of an Active actor
\* succeeds, and every Rotate presenting the same value after it returned fails with
\* 'Invalid refresh token'.
C1_RotateExactlyOnce == [][C1_FreshSucceeds /\ C1_ReplayFails]_vars

\* The replay half of C1 on its own.
C1_Replay == [][C1_ReplayFails]_vars

\* A replayed Rotate has been rejected.
C1_ReplayWitness ==
  \E p \in Procs :
    /\ pc[p] = "done" /\ call[p].op = "refresh" /\ res[p] = InvalidRefresh
    /\ call[p].token \in DOMAIN refreshTokens
    /\ refreshTokens[call[p].token].replacedBy # NoToken

\* C2: of the Rotate calls that present the same refresh value, at most one returns a
\* new pair (two handlers never both hold a pair obtained for the same value).
C2_OneWinner ==
  \A p, q \in Procs :
    (/\ p # q
     /\ pc[p] = "done" /\ call[p].op = "refresh" /\ res[p].kind = "ok"
     /\ pc[q] = "done" /\ call[q].op = "refresh" /\ res[q].kind = "ok")
      => call[p].token # call[q].token

\* C3: no Rotate issues (and goes on to return) a pair for a value whose record is
\* already revoked when the pair is issued.
C3_NoPairAfterRevoke ==
  [][\A p \in Procs :
       (pc[p] = "r_issue" /\ pc'[p] = "r_update")
         => refreshTokens[call[p].token].revokedAt = Null]_vars

\* C3, in particular: a Rotate that starts when the record is already revoked fails.
C3_StartAfterRevoke ==
  [][\A p \in Procs : \A v \in Presentable :
       (RefreshFind(p, v) /\ v \in DOMAIN refreshTokens /\ refreshTokens[v].revokedAt # Null)
         => (pc'[p] = "done" /\ res'[p] = InvalidRefresh)]_vars

\* C6: no Authenticate and no Rotate that read its actor's tenant as Suspended or
\* Cancelled returns a Credential Pair.
C6_NoPairForBadTenant ==
  [][\A p \in Procs :
       (pc[p] \in {"l_audit_ok", "r_update"} /\ pc'[p] = "done" /\ res'[p].kind = "ok")
         => loc[p].tenantStatus \notin BadTenantStatus]_vars

\* C6 for Authenticate alone.
C6_LoginOnly ==
  [][\A p \in Procs :
       (pc[p] = "l_audit_ok" /\ pc'[p] = "done" /\ res'[p].kind = "ok")
         => loc[p].tenantStatus \notin BadTenantStatus]_vars

\* The record was revoked by logout (rotation always sets a successor).
RevokedByLogout(v) ==
  /\ v \in DOMAIN refreshTokens
  /\ refreshTokens[v].revokedAt # Null
  /\ refreshTokens[v].replacedBy = NoToken

\* C10: Revoke never fails, and a Revoke of a value that an earlier, completed Revoke
\* already revoked, or of a value with no record, leaves every Refresh Record as it was.
C10_RevokeIdempotent ==
  [][\A p \in Procs :
       /\ (pc[p] = "o_redis" /\ pc'[p] = "done") => res'[p].kind = "ok"
       /\ \A v \in Presentable :
            (/\ LogoutUpdate(p, v)
             /\ \A q \in Procs : pc[q] # "o_redis"
             /\ (RevokedByLogout(v) \/ v \notin DOMAIN refreshTokens))
              => refreshTokens' = refreshTokens]_vars

\* C10 for a value with no record, and the absence of errors.
C10_AbsentNoOp ==
  [][\A p \in Procs :
       /\ (pc[p] = "o_redis" /\ pc'[p] = "done") => res'[p].kind = "ok"
       /\ \A v \in Presentable :
            (LogoutUpdate(p, v) /\ v \notin DOMAIN refreshTokens)
              => refreshTokens' = refreshTokens]_vars

\* ------------------------------------------------------------ authentication
LockedMsg == "Account is locked. Please try again later."
Locked(u) == users[u].lockedUntil # Null /\ users[u].lockedUntil > now

\* C4: after five wrong-secret logins with no successful login in between lockedUntil
\* is set, the fifth of them setting it to now + 15 minutes; while lockedUntil is in
\* the future every login of the actor, right secret or wrong, fails with 'Account is
\* locked' and no step changes lockedUntil.
C4_LockAfterFive ==
  /\ [](\A u \in DOMAIN users :
          (Idle(1) /\ wrongStreak[u] >= LockThreshold) => users[u].lockedUntil # Null)
  /\ [][\A p \in Procs :
          /\ (/\ pc[p] = "l_compare" /\ pc'[p] = "l_audit_fail"
              /\ wrongStreak[loc[p].userId] >= LockThreshold - 1)
               => users'[loc[p].userId].lockedUntil = now + LockWindowMs
          /\ \A pwOk \in BOOLEAN :
               (LoginFind(p, "a@x.com", pwOk) /\ Locked("u1"))
                 => /\ pc'[p] = "done"
                    /\ res'[p] = Err(UnauthorizedError(LockedMsg))
          /\ Locked("u1") => users'["u1"].lockedUntil = users["u1"].lockedUntil]_vars

\* C4 in terms of the stored counter: the wrong-secret login that brings
\* failedLoginAttempts to five or more sets lockedUntil to now + 15 minutes, and while
\* lockedUntil is in the future every login of the actor is refused with 'Account is
\* locked' and lockedUntil stays.
C4_LockedRejects ==
  [][\A p \in Procs :
       /\ (/\ pc[p] = "l_compare" /\ pc'[p] = "l_audit_fail"
           /\ loc[p].failed + 1 >= LockThreshold)
            => users'[loc[p].userId].lockedUntil = now + LockWindowMs
       /\ \A pwOk \in BOOLEAN :
            (LoginFind(p, "a@x.com", pwOk) /\ Locked("u1"))
              => /\ pc'[p] = "done"
                 /\ res'[p] = Err(UnauthorizedError(LockedMsg))
       /\ Locked("u1") => users'["u1"].lockedUntil = users["u1"].lockedUntil]_vars

\* The right secret has been refused right after the fifth wrong one in a row.
C4_Witness ==
  /\ pc[1] = "done" /\ call[1].op = "login" /\ call[1].pwOk
  /\ res[1] = Err(UnauthorizedError(LockedMsg))
  /\ users["u1"].failedLoginAttempts = LockThreshold
  /\ users["u1"].lockedUntil = now + LockWindowMs

\* C5: from the success write of a login on, and when the login has returned its pair,
\* the actor's failed counter is 0 and its lockedUntil is null, whatever the call read.
C5_SuccessResets ==
  \A p \in Procs :
    (\/ pc[p] \in {"l_issue", "l_audit_ok"}
     \/ pc[p] = "done" /\ call[p].op = "login" /\ res[p].kind = "ok")
      => \A u \in DOMAIN users :
           EmailOf(u) = call[p].email
             => users[u].failedLoginAttempts = 0 /\ users[u].lockedUntil = Null

\* A login that read a non-zero counter and an elapsed lock has passed its guards,
\* written the reset and holds its pair.
C5_Witness ==
  /\ pc[1] = "l_audit_ok"
  /\ loc[1].failed >= LockThreshold /\ loc[1].lockedUntil # Null
  /\ users["u1"].failedLoginAttempts = 0 /\ users["u1"].lockedUntil = Null

\* C7: a login with the right secret whose actor is Active and whose tenant is
\* Suspended fails with a ForbiddenError, a kind other than the one thrown for a
\* wrong secret.
C7_SuspendedIsForbidden ==
  [][\A p \in Procs :
       (/\ pc[p] = "l_compare" /\ pc'[p] # "l_compare"
        /\ call[p].pwOk /\ loc[p].status = "ACTIVE" /\ loc[p].tenantStatus = "SUSPENDED")
         => /\ pc'[p] = "done"
            /\ res'[p].kind = "err"
            /\ res'[p].err.cls = ForbiddenError("Tenant account is suspended").cls
            /\ res'[p].err.cls # LoginCompareError(loc[p], FALSE).cls]_vars

\* C7, the failure alone: such a login fails.
C7_SuspendedFails ==
  [][\A p \in Procs :
       (/\ pc[p] = "l_compare" /\ pc'[p] # "l_compare"
        /\ call[p].pwOk /\ loc[p].status = "ACTIVE" /\ loc[p].tenantStatus = "SUSPENDED")
         => (pc'[p] = "done" /\ res'[p].kind = "err")]_vars

\* What a login with an identifier that has no actor returns.
NoActorResult == Err(LoginLookupError(FindUserByEmail("nobody@x.com")))

\* C8 as stated: in every state, a wrong-secret login for an existing identifier
\* returns the very error a login for an identifier without actor returns.
C8_SameErrorAlways ==
  [][\A p \in Procs :
       (/\ \/ LoginFind(p, "a@x.com", FALSE)
           \/ pc[p] = "l_audit_fail"
        /\ pc'[p] = "done")
         => res'[p] = NoActorResult]_vars

\* C8 amended: a wrong-secret login for an existing identifier whose actor is not
\* locked returns the very error a login for an identifier without actor returns.
C8_SameErrorUnlocked ==
  [][\A p \in Procs :
       /\ (pc[p] = "l_audit_fail" /\ pc'[p] = "done") => res'[p] = NoActorResult
       /\ \A pwOk \in BOOLEAN :
            LoginFind(p, "nobody@x.com", pwOk) => (pc'[p] = "done" /\ res'[p] = NoActorResult)
       /\ (LoginFind(p, "a@x.com", FALSE) /\ ~Locked("u1")) => pc'[p] = "l_compare"]_vars

\* A wrong secret for an existing, unlocked actor has been answered.
C8_Witness ==
  /\ pc[1] = "done" /\ call[1].op = "login" /\ call[1].email = "a@x.com" /\ ~call[1].pwOk
  /\ res[1] = NoActorResult
  /\ users["u1"].failedLoginAttempts \in 1..(LockThreshold - 1)

\* C9: the first failing guard alone decides a login. Lookup: no actor gives 'Invalid
\* credentials', a locked actor 'Account is locked' whatever the secret, and neither
\* writes. After the compare, on the row read: a wrong secret writes counter + 1 and
\* ends in 'Invalid credentials' whatever the status and tenant status; the status
\* and tenant errors come only with the right secret, status before tenant; else the
\* call goes on to issue.
C9_GuardOrder ==
  [][\A p \in Procs :
       /\ \A email \in Emails, pwOk \in BOOLEAN :
            LoginFind(p, email, pwOk) =>
              IF email # "a@x.com"
                THEN pc'[p] = "done" /\ res'[p].err.msg = "Invalid credentials"
              ELSE IF Locked("u1")
                THEN pc'[p] = "done" /\ res'[p].err.msg = LockedMsg
              ELSE pc'[p] = "l_compare" /\ loc'[p].failed = users["u1"].failedLoginAttempts
       /\ (pc[p] = "l_compare" /\ pc'[p] # "l_compare") =>
            IF ~call[p].pwOk
              THEN /\ pc'[p] = "l_audit_fail"
                   /\ users'[loc[p].userId].failedLoginAttempts = loc[p].failed + 1
            ELSE IF loc[p].status # "ACTIVE"
              THEN pc'[p] = "done" /\ res'[p].err.msg = "Account is not active" /\ users' = users
            ELSE IF loc[p].tenantStatus = "SUSPENDED"
              THEN pc'[p] = "done" /\ res'[p].err.msg = "Tenant account is suspended"
                   /\ users' = users
            ELSE IF loc[p].tenantStatus = "CANCELLED"
              THEN pc'[p] = "done" /\ res'[p].err.msg = "Tenant account is cancelled"
                   /\ users' = users
            ELSE pc'[p] = "l_issue"
       /\ (pc[p] = "l_audit_fail" /\ pc'[p] # "l_audit_fail") =>
            (pc'[p] = "done" /\ res'[p].err.msg = "Invalid credentials")]_vars

\* A wrong secret was answered 'Invalid credentials', and counted, for an actor that is
\* not Active in a tenant that is Suspended or Cancelled.
C9_Witness ==
  /\ pc[1] = "done" /\ call[1].op = "login" /\ ~call[1].pwOk
  /\ res[1].err.msg = "Invalid credentials"
  /\ users["u1"].failedLoginAttempts > 0
  /\ \/ users["u1"].status # "ACTIVE"
     \/ tenants["t1"].status \in BadTenantStatus

\* ------------------------------------------------------------ failures
RefreshCall(v) == [op |-> "refresh", email |-> "none", pwOk |-> FALSE, token |-> v]

\* Handler p's refreshToken call fails at its first store operation or at the checks
\* that follow it.
RotateFailsAtEntry(p) ==
  /\ \E v \in Presentable :
       \/ RefreshFind(p, v)
       \/ \E e \in StoreErrors : EntryFail(p, RefreshCall(v), e)
  /\ pc'[p] = "done" /\ res'[p].kind = "err"

\* Handler p's refreshToken call fails at a later step.
RotateFailsLater(p) ==
  pc[p] \in {"r_user", "r_issue", "r_update"} /\ pc'[p] = "done" /\ res'[p].kind = "err"

\* C11: a Rotate that fails, for whatever reason, has created no Refresh Record and
\* changes none: the table is as it was before the call.
C11_FailedRotateNoWrite ==
  [][\A p \in Procs :
       /\ RotateFailsAtEntry(p) => refreshTokens' = refreshTokens
       /\ RotateFailsLater(p) =>
            /\ refreshTokens' = refreshTokens
            /\ loc[p].tokens.refreshToken \notin DOMAIN refreshTokens]_vars

\* C11 for every failure but that of the final update: a Rotate that fails before its
\* update of the presented record has created and changed no Refresh Record.
C11_NoWriteBeforeUpdate ==
  [][\A p \in Procs :
       /\ RotateFailsAtEntry(p) => refreshTokens' = refreshTokens
       /\ (RotateFailsLater(p) /\ pc[p] # "r_update") =>
            /\ refreshTokens' = refreshTokens
            /\ loc[p].tokens.refreshToken \notin DOMAIN refreshTokens]_vars

\* ------------------------------------------------------------ use of the pair
\* The actor the pair last returned by handler p was issued to.
IssuedTo(p) ==
  IF call[p].op = "login" THEN FindUserByEmail(call[p].email) ELSE call[p].token.userId

\* C12: the middleware, given the access value of the pair a login or a Rotate
\* returned, attaches the id and tenant id of the actor the pair was issued to, and
\* accepts it while it is unexpired and the actor and tenant are in good standing;
\* given the refresh value of the pair it answers 'Invalid token'.
C12_AccessRoundTrip ==
  [][\A t \in BearerTokens :
       (Authenticate(2, t) /\ res[1].kind = "ok" /\ t # NoToken) =>
         /\ t = res[1].tokens.refreshToken => res'[2] = Err(UnauthorizedError("Invalid token"))
         /\ t = res[1].tokens.accessToken =>
              LET u == IssuedTo(1) IN
                /\ res'[2].kind = "ok" =>
                     res'[2].user = [userId |-> u, tenantId |-> users[u].tenantId]
                /\ (/\ NowSec < t.iat + AccessTtlSec
                    /\ users[u].status = "ACTIVE"
                    /\ tenants[users[u].tenantId].status \notin BadTenantStatus)
                     => res'[2].kind = "ok"]_vars

\* The access value returned by a Rotate has been verified and the actor attached.
C12_Witness ==
  /\ pc[1] = "done" /\ call[1].op = "refresh" /\ res[1].kind = "ok"
  /\ pc[2] = "done" /\ call[2].op = "authenticate"
  /\ call[2].token = res[1].tokens.accessToken
  /\ res[2].kind = "ok" /\ res[2].user = [userId |-> "u1", tenantId |-> "t1"]

\* ------------------------------------------------------------ audit failures
\* C13: whether its audit write succeeds or fails, a login that reached the audit of
\* its success returns the pair it issued, one that reached the audit of a wrong
\* secret fails with 'Invalid credentials', and the step changes no user row and no
\* Refresh Record.
C13_AuditBestEffort ==
  [][\A p \in Procs :
       /\ (pc[p] = "l_audit_ok" /\ pc'[p] # "l_audit_ok") =>
            /\ pc'[p] = "done" /\ res'[p] = Ok(loc[p].tokens)
            /\ loc[p].tokens.refreshToken \in DOMAIN refreshTokens'
            /\ users' = users /\ refreshTokens' = refreshTokens
       /\ (pc[p] = "l_audit_fail" /\ pc'[p] # "l_audit_fail") =>
            /\ pc'[p] = "done" /\ res'[p] = Err(UnauthorizedError("Invalid credentials"))
            /\ users' = users /\ refreshTokens' = refreshTokens]_vars

\* A login returned its pair although the audit write of LOGIN failed.
C13_Witness ==
  /\ pc[1] = "done" /\ call[1].op = "login" /\ res[1].kind = "ok"
  /\ res[1].tokens.refreshToken \in DOMAIN refreshTokens
  /\ [action |-> "LOGIN", userId |-> "u1"] \notin auditLog

\* ------------------------------------------------------------ store failures seen by the caller
\* Handler p's call ends because a store operation threw: an injected failure, or the
\* unique-constraint violation of refreshToken.create.
StoreFailure(p) ==
  \/ \E c \in ClientCalls, e \in StoreErrors : EntryFail(p, c, e)
  \/ \E e \in StoreErrors : StoreFail(p, e)
  \/ pc[p] \in {"l_issue", "r_issue"} /\ pc'[p] = "done"

\* C14: a call of login, refreshToken or logout that ends because a store operation
\* threw gives the caller an error that is not a 401 and is answered with a 5xx status.
C14_StoreFailureIs5xx ==
  [][\A p \in Procs :
       StoreFailure(p) =>
         /\ res'[p].kind = "err"
         /\ res'[p].err.statusCode # 401
         /\ res'[p].err.statusCode >= 500]_vars

\* C14, the distinction alone: such an error is never a 401 UnauthorizedError.
C14_StoreFailureNot401 ==
  [][\A p \in Procs :
       StoreFailure(p) =>
         /\ res'[p].kind = "err"
         /\ res'[p].err.statusCode # 401
         /\ res'[p].err.cls # UnauthorizedError("Invalid credentials").cls]_vars

\* ------------------------------------------------------------ frame of the record table
\* C15: once a Refresh Record's revokedAt is non-null, no step changes its revokedAt
\* or its replacedBy.
C15_RevokedIsFinal ==
  [][\A v \in DOMAIN refreshTokens :
       refreshTokens[v].revokedAt # Null =>
         /\ refreshTokens'[v].revokedAt = refreshTokens[v].revokedAt
         /\ refreshTokens'[v].replacedBy = refreshTokens[v].replacedBy]_vars

\* ------------------------------------------------------------ API client
InFlight(r) == client.req[r].phase \in {"sent", "refreshing"}
Settled(r) == client.req[r].phase \in {"resolved", "rejected"}

\* C16: a request makes at most one refresh call and is sent at most twice; its first
\* 401 starts the refresh and a 401 on the retry rejects; a successful refresh stores
\* the new token and sends the request once more with it; a failed refresh removes the
\* stored token, goes to /login and rejects; every request in flight is settled.
C16_RefreshOnceRetryOnce ==
  /\ [](\A r \in Reqs : client.req[r].refreshes <= 1 /\ client.req[r].sends <= 2)
  /\ [][\A r \in Reqs :
          /\ (ClientResponse(r, 401) /\ client.req[r].sends = 1) =>
               (client'.req[r].phase = "refreshing" /\ client'.req[r].refreshes = 1)
          /\ (ClientResponse(r, 401) /\ client.req[r].sends = 2) =>
               (client'.req[r].phase = "rejected" /\ client'.req[r].refreshes = 1)
          /\ ClientRefreshDone(r, TRUE) =>
               /\ client'.req[r].phase = "sent" /\ client'.req[r].sends = 2
               /\ client'.stored \notin {0, client.stored}
               /\ client'.req[r].header = client'.stored
          /\ ClientRefreshDone(r, FALSE) =>
               /\ client'.stored = 0 /\ client'.location = "login"
               /\ client'.req[r].phase = "rejected"]_vars
  /\ \A r \in Reqs : InFlight(r) ~> Settled(r)

\* A request was answered 401, refreshed, and resolved on its retry with the new token.
C16_Witness ==
  /\ client.req[1].phase = "resolved"
  /\ client.req[1].sends = 2 /\ client.req[1].refreshes = 1
  /\ client.req[1].header = client.stored /\ client.stored > 1

\* ------------------------------------------------------------ rotation
\* C17: the step in which a Rotate of v returns the pair with refresh value r writes,
\* at once, revokedAt = now and replacedBy = r on the record of v, which did not point
\* to r before; the record of r exists, is unrevoked, has no successor and belongs to
\* the actor that owns v.
C17_RotateLinks ==
  [][\A p \in Procs :
       (pc[p] = "r_update" /\ pc'[p] = "done" /\ res'[p].kind = "ok") =>
         LET v == call[p].token
             r == res'[p].tokens.refreshToken IN
           /\ refreshTokens[v].replacedBy # r
           /\ refreshTokens'[v].revokedAt = now
           /\ refreshTokens'[v].replacedBy = r
           /\ r \in DOMAIN refreshTokens' /\ r # v
           /\ refreshTokens'[r].revokedAt = Null
           /\ refreshTokens'[r].replacedBy = NoToken
           /\ refreshTokens'[r].userId = refreshTokens'[v].userId]_vars

\* A Rotate has returned: the old record points to the new one, which is fresh.
C17_Witness ==
  \E p \in Procs :
    /\ pc[p] = "done" /\ call[p].op = "refresh" /\ res[p].kind = "ok"
    /\ refreshTokens[call[p].token].revokedAt # Null
    /\ refreshTokens[call[p].token].replacedBy = res[p].tokens.refreshToken
    /\ refreshTokens[res[p].tokens.refreshToken].revokedAt = Null

\* ------------------------------------------------------------ frame of a refused login
\* C18: no step of a login that is refused because the actor is locked, or because its
\* status is not ACTIVE, writes a user row or a Refresh Record: the failed counter and
\* lockedUntil stay as they were and no record is created.
C18_RefusalWritesNothing ==
  [][\A p \in Procs :
       /\ \A email \in Emails, pwOk \in BOOLEAN :
            LoginFind(p, email, pwOk) => (users' = users /\ refreshTokens' = refreshTokens)
       /\ \A pwOk \in BOOLEAN :
            (LoginFind(p, "a@x.com", pwOk) /\ Locked("u1")) =>
              (pc'[p] = "done" /\ res'[p] = Err(UnauthorizedError(LockedMsg)))
       /\ (/\ pc[p] = "l_compare" /\ pc'[p] # "l_compare"
           /\ call[p].pwOk /\ loc[p].status # "ACTIVE") =>
              /\ pc'[p] = "done"
              /\ res'[p] = Err(UnauthorizedError("Account is not active"))
              /\ users' = users /\ refreshTokens' = refreshTokens]_vars

\* A login with the right secret was refused for the status of an actor that has
\* failed attempts on its counter, and the counter is still there.
C18_Witness ==
  /\ pc[1] = "done" /\ call[1].op = "login" /\ call[1].pwOk
  /\ res[1] = Err(UnauthorizedError("Account is not active"))
  /\ users["u1"].failedLoginAttempts > 0
  /\ refreshTokens = << >>

\* ------------------------------------------------------------ creation of records
\* Handler p's call has not reached generateTokens, or failed in it.
BeforeIssue(p) == pc[p] \in {"l_compare", "l_audit_fail", "l_issue", "r_user", "r_issue"}

\* C19: records are never removed and are added one at a time, only by the
\* generateTokens step of a login or a Rotate, as an unrevoked row without successor
\* owned by the call's actor; a call that returns a pair made exactly that one step
\* (it holds no pair before it and returns the pair of its record), and a login that
\* fails has added nothing.
C19_OneRecordPerSuccess ==
  /\ [](\A p \in Procs : BeforeIssue(p) => loc[p].tokens = NoTokens)
  /\ [][/\ DOMAIN refreshTokens \subseteq DOMAIN refreshTokens'
        /\ DOMAIN refreshTokens' # DOMAIN refreshTokens =>
             \E p \in Procs :
               LET r == loc'[p].tokens.refreshToken IN
                 /\ pc[p] \in {"l_issue", "r_issue"} /\ pc'[p] \in {"l_audit_ok", "r_update"}
                 /\ DOMAIN refreshTokens' = DOMAIN refreshTokens \cup {r}
                 /\ r \notin DOMAIN refreshTokens
                 /\ refreshTokens'[r].revokedAt = Null
                 /\ refreshTokens'[r].replacedBy = NoToken
                 /\ refreshTokens'[r].userId = loc[p].userId
        /\ \A p \in Procs :
             /\ (pc[p] \in {"l_issue", "r_issue"} /\ pc'[p] \in {"l_audit_ok", "r_update"}) =>
                  Cardinality(DOMAIN refreshTokens') = Cardinality(DOMAIN refreshTokens) + 1
             /\ (pc[p] \in {"l_audit_ok", "r_update"} /\ pc'[p] = "done" /\ res'[p].kind = "ok") =>
                  /\ res'[p].tokens = loc[p].tokens
                  /\ res'[p].tokens.refreshToken \in DOMAIN refreshTokens
                  /\ DOMAIN refreshTokens' = DOMAIN refreshTokens
             /\ (/\ pc[p] \in {"l_compare", "l_audit_fail", "l_issue", "l_audit_ok"}
                 /\ pc'[p] = "done" /\ res'[p].kind = "err") =>
                  /\ loc[p].tokens = NoTokens
                  /\ refreshTokens' = refreshTokens
             /\ \A pwOk \in BOOLEAN :
                  LoginFind(p, "a@x.com", pwOk) => refreshTokens' = refreshTokens]_vars

\* A login and then a Rotate have succeeded, each having added its one record.
C19_Witness ==
  /\ pc[1] = "done" /\ call[1].op = "refresh" /\ res[1].kind = "ok"
  /\ Cardinality(DOMAIN refreshTokens) = 2
  /\ refreshTokens[res[1].tokens.refreshToken].revokedAt = Null
  /\ refreshTokens[res[1].tokens.refreshToken].userId = "u1"

\* ------------------------------------------------------------ the two expiries
\* jwt.verify rejects the value as expired at the current clock.
AssertionExpired(v) == JwtVerify(v, "refresh") = "TokenExpiredError"
\* The expiry check of refreshToken on the stored row fails at the current clock.
RecordExpired(v) == refreshTokens[v].expiresAt < now

\* C20: the expiresAt of every Refresh Record is the exp of the value it stores, and
\* at every instant the value is expired for jwt.verify exactly when its record is
\* expired for the record check.
C20_ExpiryAgree ==
  \A v \in DOMAIN refreshTokens :
    /\ refreshTokens[v].expiresAt = v.exp * MsPerSecond
    /\ AssertionExpired(v) <=> RecordExpired(v)

\* C20, one direction: a record is never expired before the value it stores, so a
\* Rotate never gets as far as answering 'Refresh token expired'.
C20_RecordOutlivesAssertion ==
  /\ [](\A v \in DOMAIN refreshTokens :
          /\ refreshTokens[v].expiresAt >= v.exp * MsPerSecond
          /\ RecordExpired(v) => AssertionExpired(v))
  /\ [][\A p \in Procs : \A v \in Presentable :
          RefreshFind(p, v) => res'[p].err.msg # "Refresh token expired"]_vars

\* ------------------------------------------------------------ the denylist
\* The redis key blacklist:<v> exists and has not run out.
Denylisted(v) == v \in DOMAIN denylist /\ NowSec < denylist[v]

\* A Rotate returns a pair only for a value that is not in the denylist.
NoPairWhileDenylisted ==
  \A p \in Procs :
    (pc[p] = "r_update" /\ pc'[p] = "done" /\ res'[p].kind = "ok")
      => ~Denylisted(call[p].token)

\* C21: a completed Revoke has put the value in the denylist for the lifetime of a
\* refresh assertion, and no Rotate returns a pair for a value that is in the denylist.
C21_DenylistBlocksRotate ==
  [][/\ \A p \in Procs :
          (pc[p] = "o_redis" /\ pc'[p] = "done") =>
            /\ call[p].token \in DOMAIN denylist'
            /\ denylist'[call[p].token] = NowSec + RefreshTtlSec
     /\ NoPairWhileDenylisted]_vars

\* C21, the second half alone.
C21_NoPairWhileDenylisted == [][NoPairWhileDenylisted]_vars

\* C21 as far as the code goes: with a redis client at hand Revoke writes the key with
\* a seven-day lifetime, and a Rotate that starts while the value is in the denylist is
\* refused (its record being revoked).
C21_WrittenAndRefusedAtStart ==
  [][\A p \in Procs :
       /\ LogoutRedis(p, TRUE) =>
            /\ call[p].token \in DOMAIN denylist'
            /\ denylist'[call[p].token] = NowSec + RefreshTtlSec
       /\ \A v \in Presentable :
            (RefreshFind(p, v) /\ Denylisted(v)) =>
              (pc'[p] = "done" /\ res'[p] = InvalidRefresh)]_vars

\* ------------------------------------------------------------ audit of an unknown identifier
\* The audit row of a failed login that names no actor.
AnonymousFailure == [action |-> "LOGIN_FAILED", userId |-> "none"]

\* C22: a login for an identifier that has no actor fails with 'Invalid credentials'
\* and leaves a LOGIN_FAILED audit row without actor reference.
C22_UnknownIsAudited ==
  [][\A p \in Procs : \A pwOk \in BOOLEAN :
       LoginFind(p, "nobody@x.com", pwOk) =>
         /\ pc'[p] = "done"
         /\ res'[p] = Err(UnauthorizedError("Invalid credentials"))
         /\ AnonymousFailure \in auditLog']_vars

\* C22 as the code has it: the login fails with 'Invalid credentials' at once and
\* the audit log is left as it was.
C22_UnknownFailsUnaudited ==
  [][\A p \in Procs : \A pwOk \in BOOLEAN :
       LoginFind(p, "nobody@x.com", pwOk) =>
         /\ pc'[p] = "done"
         /\ res'[p] = Err(UnauthorizedError("Invalid credentials"))
         /\ auditLog' = auditLog]_vars

\* ------------------------------------------------------------ interleaved logins
\* Handler p's login writes the outcome of a wrong secret.
WritesFailure(p) == pc[p] = "l_compare" /\ pc'[p] = "l_audit_fail"

\* C23: the write of every wrong-secret login raises the stored failed counter by
\* exactly one, and sets lockedUntil when the counter reaches five, however the
\* logins of the actor interleave.
C23_CountsEveryFailure ==
  [][\A p \in Procs :
       WritesFailure(p) =>
         LET u == loc[p].userId IN
           /\ users'[u].failedLoginAttempts = users[u].failedLoginAttempts + 1
           /\ users'[u].failedLoginAttempts >= LockThreshold =>
                users'[u].lockedUntil = now + LockWindowMs]_vars

\* C23 as the code has it: the write stores the counter the call read, plus one, and
\* sets lockedUntil when that number is five or more.
C23_CountsFromRead ==
  [][\A p \in Procs :
       WritesFailure(p) =>
         LET u == loc[p].userId IN
           /\ users'[u].failedLoginAttempts = loc[p].failed + 1
           /\ users'[u].failedLoginAttempts >= LockThreshold =>
                users'[u].lockedUntil = now + LockWindowMs]_vars

\* C24: in every state an actor's lockedUntil is non-null only if its failed counter
\* is at least five, and a counter of 0 goes with a null lockedUntil.
C24_LockImpliesFive ==
  \A u \in DOMAIN users :
    /\ users[u].lockedUntil # Null => users[u].failedLoginAttempts >= LockThreshold
    /\ users[u].failedLoginAttempts = 0 => users[u].lockedUntil = Null

\* C24, the second half alone: a counter of 0 goes with a null lockedUntil.
C24_ZeroImpliesNoLock ==
  \A u \in DOMAIN users :
    users[u].failedLoginAttempts = 0 => users[u].lockedUntil = Null

\* ------------------------------------------------------------ lock expiry
\* Handler p's login writes the reset of a right secret that passed every check.
WritesSuccess(p) == pc[p] = "l_compare" /\ pc'[p] = "l_issue"

\* C25, the part about the lock window: the passing of time changes no user row, a
\* wrong-secret login that read a counter of five or more sets lockedUntil again, and
\* the counter goes down only in the write of a login that passed every check.
C25_ExpiryKeepsCounter ==
  [][/\ now' # now => users' = users
     /\ \A p \in Procs :
          (WritesFailure(p) /\ loc[p].failed >= LockThreshold) =>
            users'[loc[p].userId].lockedUntil = now' + LockWindowMs
     /\ \A u \in DOMAIN users :
          users'[u].failedLoginAttempts < users[u].failedLoginAttempts =>
            /\ users'[u].failedLoginAttempts = 0
            /\ \E p \in Procs : WritesSuccess(p) /\ loc[p].userId = u]_vars

\* C25: C25_ExpiryKeepsCounter, and the login whose write returned the counter to 0
\* (the call read a counter above 0) is a successful one: it returns a pair.
C25_OnlySuccessResets ==
  /\ C25_ExpiryKeepsCounter
  /\ [][\A p \in Procs :
         (pc[p] = "l_issue" /\ pc'[p] = "done" /\ loc[p].failed > 0) =>
           res'[p].kind = "ok"]_vars

\* ------------------------------------------------------------ uniqueness of refresh values
\* Handler p runs generateTokens in this step.
Issues(p) == pc[p] \in {"l_issue", "r_issue"} /\ pc'[p] # pc[p]

\* The refresh value handler p's generateTokens signs at the current clock.
IssuedValue(p) ==
  MintTokens([id |-> loc[p].userId, tenantId |-> loc[p].tenantId]).refreshToken

\* C26: generateTokens always signs a refresh value that is not yet stored, so its
\* insert never fails and the login or rotation goes on, also in the clock second of
\* the previous issue for the actor.
C26_IssueNeverCollides ==
  [][\A p \in Procs :
       Issues(p) => CanCreate(IssuedValue(p)) /\ pc'[p] # "done"]_vars

\* C26 as the code has it: the insert fails exactly when a value signed for the same
\* actor in the same clock second is stored.
C26_CollidesWithinSecond ==
  [][\A p \in Procs :
       Issues(p) =>
         (pc'[p] = "done" <=>
            \E t \in DOMAIN refreshTokens :
              t.userId = loc[p].userId /\ t.iat = NowSec)]_vars

\* ------------------------------------------------------------ protected calls
\* Handler p's authenticate middleware calls next() without an error in this step.
Admits(p) ==
  /\ call'[p].op = "authenticate" /\ pc'[p] = "done" /\ res'[p].kind = "ok"
  /\ <<pc[p], call[p], res[p]>> # <<pc'[p], call'[p], res'[p]>>

\* The actor exists, is ACTIVE, and its tenant (if any) is neither SUSPENDED nor
\* CANCELLED.
InGoodStanding(u) ==
  /\ u \in DOMAIN users
  /\ users[u].status = "ACTIVE"
  /\ users[u].tenantId # "none" => tenants[users[u].tenantId].status \notin BadTenantStatus

\* C27: the authenticate middleware admits a call only if, at the time of the call,
\* the actor named in the access assertion is in good standing; a call made after the
\* actor was deactivated or its tenant suspended is rejected, whatever the assertion.
C27_AdmitsOnlyGoodStanding ==
  [][\A p \in Procs :
       /\ Admits(p) => InGoodStanding(call'[p].token.userId)
       /\ \A token \in BearerTokens :
            (Authenticate(p, token) /\ token # NoToken /\ ~InGoodStanding(token.userId)) =>
              res'[p].kind = "err" /\ res'[p].err.statusCode \in {401, 403}]_vars

\* A protected call was rejected although its access assertion, issued before the
\* actor was deactivated or its tenant suspended, verifies and has not expired.
C27_Witness ==
  /\ pc[2] = "done" /\ call[2].op = "authenticate" /\ res[2].kind = "err"
  /\ JwtVerify(call[2].token, "access") = "ok"
  /\ ~InGoodStanding(call[2].token.userId)
  /\ res[2].err \in {UnauthorizedError("User account is not active"),
                      ForbiddenError("Tenant account is suspended"),
                      ForbiddenError("Tenant account is cancelled")}

\* ------------------------------------------------------------ concurrent 401 handlers
\* Request r's 401 handler made its refresh post and the request ended rejected.
RefreshFailed(r) == page.req[r].retry /\ page.req[r].phase = "rejected"

\* C28: no request whose 401 handler posted /auth/refresh ends rejected with the
\* client sent to /login: with a valid refresh cookie, both of two requests that got
\* 401 for the same expired access token are retried.
C28_BothRetried ==
  \A r \in Reqs : ~RefreshFailed(r)

\* C28, the refresh endpoint alone: no 401 handler has its refresh post refused as
\* 'Invalid refresh token' because the other handler presented the same value.
C28_NoPresenterRefused ==
  \A r \in Reqs : ~(RefreshFailed(r) /\ res[r] = InvalidRefresh)

\* ------------------------------------------------------------ RetailOps store contract
\* In this step the store called listener l.
Called(l) == received'[l] # received[l]

\* C29: setState(next) leaves next as the state and calls every subscribed listener
\* exactly once with next, and no other; updateState does the same with the updater's
\* result; a listener whose unsubscribe function was called is not called by any later
\* setState or updateState; initState sets the state and calls no listener.
C29_StoreContract ==
  [][/\ \A next \in StoreStates :
          StoreSet(next) =>
            /\ state' = next
            /\ \A l \in Listeners :
                 IF l \in listeners
                   THEN received'[l] = [count |-> received[l].count + 1, last |-> next]
                   ELSE ~Called(l)
     /\ StoreUpdate =>
          \A l \in listeners :
            received'[l] = [count |-> received[l].count + 1, last |-> SimulateTick(state)]
     /\ \A l \in Listeners : (Called(l) => l \notin gone /\ received'[l].last = state')
     /\ \A l \in Listeners : StoreUnsubscribe(l) => l \in gone' /\ l \notin listeners'
     /\ \A s \in StoreStates :
          StoreInit(s) => state' = s /\ received' = received]_vars

\* Both listeners were called; "other" then unsubscribed and was not called by the
\* setState that followed, which called "render" with the new state.
C29_Witness ==
  /\ "other" \in gone /\ "render" \in listeners
  /\ received["other"].count = 1 /\ received["render"].count = 2
  /\ received["render"].last = state /\ received["other"].last # state

\* ------------------------------------------------------------ RetailOps live updates
\* C30: after init and any clicks, slider inputs and timer callbacks, at most one
\* interval timer exists, one exists exactly when state.live is true (and it is the
\* one whose id is held), and while live is false no simulateTick is applied.
C30_OneTimerIffLive ==
  /\ [](/\ Cardinality(timers) <= 1
        /\ timers # {} <=> state.live
        /\ timers = IF liveIntervalId = Null THEN {} ELSE {liveIntervalId})
  /\ [][(state # NullState /\ ~state.live) => state'.lastUpdated = state.lastUpdated]_vars

\* Live mode was switched off, on and off again: simulated ticks were applied while it
\* was on, and now no timer exists.
C30_Witness ==
  /\ state # NullState /\ ~state.live
  /\ timers = {} /\ liveIntervalId = Null
  /\ timerSeq >= 2 /\ state.lastUpdated >= 2

====
